---- MODULE Spec2Model ----
(***************************************************************************)
(* recordRLEData (record_rle.ino): the run-length-encoding capture loop of *)
(* the Teensy logic analyzer.  One loop iteration reads one sample, packs  *)
(* it (or an RLE count) into the working word, commits full words to the   *)
(* circular buffer and runs one step of the capture state machine.         *)
(*                                                                         *)
(* Pointers are word addresses (integers); a pointer below startOfBuffer   *)
(* is a smaller integer, as on the flat address space of the target.       *)
(* The program's locals are the fields of the record `run`; `twin` is a    *)
(* second execution of the same code on the same configuration, samples    *)
(* and host interrupt, started on different buffer contents.               *)
(***************************************************************************)
EXTENDS Integers, Sequences, FiniteSets, TLC

\* number of loop iterations (samples read) explored
MaxSamples == 11
\* words in the buffer region, endOfBuffer - startOfBuffer
BufWords == 3

\* Words (uint32_t) are integers here.  The model checker's integers end at
\* 2^31 - 1: a word operation whose result has bit 31 set stops the check
\* with an overflow instead of going on with another value (the words of
\* the layouts below stay under 2^6).  The one value of the program that
\* does pass 2^31, dynamic.triggerSampleIndex after the conversion of a
\* negative int, is kept exactly, as two 16-bit halves.
Half == 65536

VARIABLES sv, run, twin, usbPending, samples, armedAt, matchAt, firedAt

VARIABLE wordsAtFire

VARIABLE pendingFor

vars == <<sv, run, twin, usbPending, samples, armedAt, matchAt, firedAt,
          wordsAtFire, pendingFor>>

----------------------------------------------------------------------------
(* Bit operations on unsigned words *)

RECURSIVE BitAnd(_, _)
BitAnd(a, b) ==
  IF a = 0 \/ b = 0 THEN 0
  ELSE (IF a % 2 = 1 /\ b % 2 = 1 THEN 1 ELSE 0) + 2 * BitAnd(a \div 2, b \div 2)

RECURSIVE Pow2(_)
Pow2(n) == IF n = 0 THEN 1 ELSE 2 * Pow2(n - 1)

\* w << n on a 32-bit word: the bits shifted past bit 31 are dropped
ShiftLeft(w, n) ==
  LET kept == IF n <= 1 THEN w ELSE w % Pow2(32 - n)
  IN IF kept = 0 THEN 0 ELSE kept * Pow2(n)

ShiftRight(w, n) == w \div Pow2(n)

----------------------------------------------------------------------------
(* Configuration: sumpSetupVariableStruct, read-only during the capture *)

\* slot layouts, small versions of the firmware's channel modes: two 3-bit
\* slots per word (2 data bits + marker, counts up to 3) and three 2-bit
\* slots per word (1 data bit + marker, counts up to 1).  sampleMask covers
\* one slot, rleCountIndicator is the marker bit of the lowest slot,
\* anyDataMask the marker bit of every slot.
Geometries ==
  { [samplesPerElement |-> 2, sampleShift |-> 3, sampleMask |-> 7,
     rleCountIndicator |-> 4, anyDataMask |-> 36],
    [samplesPerElement |-> 3, sampleShift |-> 2, sampleMask |-> 3,
     rleCountIndicator |-> 2, anyDataMask |-> 42] }

\* trigger programs: triggerMask[], triggerValue[], triggerDelay[] and
\* lastTriggerLevel
NoTrigger ==
  [triggerMask |-> (0 :> 0), triggerValue |-> (0 :> 0),
   triggerDelay |-> (0 :> 0), lastTriggerLevel |-> 0]

TriggerPrograms ==
  { \* one level, value 1 on channel 0
    [triggerMask |-> (0 :> 1), triggerValue |-> (0 :> 1),
     triggerDelay |-> (0 :> 0), lastTriggerLevel |-> 0],
    \* two levels that the same sample satisfies
    [triggerMask |-> (0 :> 1 @@ 1 :> 1), triggerValue |-> (0 :> 1 @@ 1 :> 1),
     triggerDelay |-> (0 :> 0 @@ 1 :> 0), lastTriggerLevel |-> 1],
    \* A then B, B delayed
    [triggerMask |-> (0 :> 1 @@ 1 :> 1), triggerValue |-> (0 :> 1 @@ 1 :> 0),
     triggerDelay |-> (0 :> 0 @@ 1 :> 1), lastTriggerLevel |-> 1],
    \* A then B, both delayed
    [triggerMask |-> (0 :> 1 @@ 1 :> 1), triggerValue |-> (0 :> 1 @@ 1 :> 0),
     triggerDelay |-> (0 :> 1 @@ 1 :> 2), lastTriggerLevel |-> 1] }

\* pre-trigger depths, up to one word more than the buffer holds
DelaySizes == 0 .. BufWords + 1

Setups ==
  { [samplesToRecord |-> BufWords * g.samplesPerElement,
     samplesPerElement |-> g.samplesPerElement,
     sampleMask |-> g.sampleMask,
     anyDataMask |-> g.anyDataMask,
     rleCountIndicator |-> g.rleCountIndicator,
     sampleShift |-> g.sampleShift,
     startOfBuffer |-> 0,
     endOfBuffer |-> BufWords,
     delaySizeInElements |-> d,
     triggerMask |-> t.triggerMask,
     triggerValue |-> t.triggerValue,
     triggerDelay |-> t.triggerDelay,
     lastTriggerLevel |-> t.lastTriggerLevel]
    : g \in Geometries, d \in DelaySizes, t \in TriggerPrograms }
  \cup
  { [samplesToRecord |-> BufWords * g.samplesPerElement,
     samplesPerElement |-> g.samplesPerElement,
     sampleMask |-> g.sampleMask,
     anyDataMask |-> g.anyDataMask,
     rleCountIndicator |-> g.rleCountIndicator,
     sampleShift |-> g.sampleShift,
     startOfBuffer |-> 0,
     endOfBuffer |-> BufWords,
     delaySizeInElements |-> 0,
     triggerMask |-> NoTrigger.triggerMask,
     triggerValue |-> NoTrigger.triggerValue,
     triggerDelay |-> NoTrigger.triggerDelay,
     lastTriggerLevel |-> NoTrigger.lastTriggerLevel]
    : g \in Geometries }

\* what the buffer region may hold when the capture starts (the function
\* does not clear it): cleared memory, words of an earlier capture holding
\* samples, or words that look like pure RLE counts
BufferFills(setup) == { 0, 9, setup.anyDataMask }

\* the contents the second run starts on: the next fill, cyclically
OtherFill(setup, fill) ==
  LET above == { f \in BufferFills(setup) : f > fill }
      Least(S) == CHOOSE m \in S : \A f \in S : m <= f
  IN IF above # {} THEN Least(above) ELSE Least(BufferFills(setup))

\* values of PORT_DATA_INPUT_REGISTER; the bits above the data channels are
\* masked off by the read
PortValues == { 0, 7 }

\* dynamic.interruptedIndex as the caller left it
Unset == -1

----------------------------------------------------------------------------
(* Locals derived from the setup, lines 38-53 *)

elementsToRecord == sv.samplesToRecord \div sv.samplesPerElement
endOfBuffer == sv.endOfBuffer
startOfBuffer == sv.startOfBuffer
samplesPerElement == sv.samplesPerElement
samplesPerElementMinusOne == sv.samplesPerElement - 1
sampleMask == ShiftRight(sv.sampleMask, 1)
anyDataMask == sv.anyDataMask
rleCountIndicator == sv.rleCountIndicator
sampleShift == sv.sampleShift

----------------------------------------------------------------------------
(* State at loop entry, lines 37-97 *)

\* InitialStartPtr without the clamp of lines 92-95
InitialStartPtrUnclamped(setup) ==
  IF setup.triggerMask[0] # 0
  THEN setup.startOfBuffer + setup.delaySizeInElements
  ELSE setup.endOfBuffer

\* lines 74-95: where the capture state machine starts and the position
\* that arms the trigger (or, without trigger, ends the capture)
InitialStartPtr(setup) ==
  LET chosen == IF setup.triggerMask[0] # 0
                THEN setup.startOfBuffer + setup.delaySizeInElements
                ELSE setup.endOfBuffer
  IN IF chosen >= setup.endOfBuffer THEN setup.endOfBuffer - 1 ELSE chosen

InitialSwitchPtr(setup) ==
  IF setup.triggerMask[0] # 0 THEN "Buffering" ELSE "Triggered_Second_Pass"

InitialLocals(setup, fill) ==
  [ pc |-> "loop",
    buffer |-> [a \in setup.startOfBuffer .. setup.endOfBuffer - 1 |-> fill],
    bufferHasWrapped |-> FALSE,
    inputPtr |-> setup.startOfBuffer,
    startPtr |-> InitialStartPtr(setup),
    sampleValue |-> -1,
    previousSampleValue |-> -1,
    previousFirstValue |-> 0,
    rleInProgress |-> FALSE,
    triggerCount |-> setup.samplesPerElement - 1,
    workingCount |-> (setup.samplesPerElement - 1) + 1,
    workingValue |-> 0,
    currentTriggerLevel |-> 0,
    triggerMask |-> setup.triggerMask[0],
    triggerValue |-> setup.triggerValue[0],
    triggerDelay |-> setup.triggerDelay[0],
    switch_ptr |-> InitialSwitchPtr(setup),
    \* outputs, written after the loop
    firstRLEValue |-> 0,
    triggerSampleIndex |-> [hi |-> 0, lo |-> 0],
    dynamicBufferHasWrapped |-> FALSE,
    interruptedIndex |-> Unset,
    \* calls to the collaborators
    ledOnCalls |-> 0,
    ledOffCalls |-> 0,
    resetCalls |-> 0,
    \* history: words written to the buffer, saves of previousFirstValue,
    \* and whether the loop was left by one of the three breaks
    wordsCommitted |-> 0,
    firstValueSaves |-> 0,
    halted |-> FALSE ]

----------------------------------------------------------------------------
(* The encoder half of one iteration, lines 103-268 *)

\* HaltDueToUSB that goes on with the capture
HaltDueToUSBIgnored(s) == s

\* lines 134-137, 197-200, 238-241: halt due to USB interrupt
HaltDueToUSB(s) ==
  [s EXCEPT !.ledOffCalls = @ + 1,
            !.resetCalls = @ + 1,
            !.halted = TRUE,
            !.pc = "DoneRecording"]

\* CommitWord that lets the cursor rest on endOfBuffer and wraps it one
\* word later
CommitWordWrapsLate(s, usb) ==
  LET stored == [s EXCEPT !.buffer[s.inputPtr] = s.workingValue,
                          !.inputPtr = @ + 1,
                          !.wordsCommitted = @ + 1]
  IN IF stored.inputPtr > endOfBuffer
     THEN LET wrapped == [stored EXCEPT !.inputPtr = startOfBuffer,
                                        !.bufferHasWrapped = TRUE]
          IN IF usb THEN HaltDueToUSB(wrapped) ELSE wrapped
     ELSE stored

\* CommitWord without the poll of the host at the wraparound
CommitWordNoPoll(s, usb) ==
  LET stored == [s EXCEPT !.buffer[s.inputPtr] = s.workingValue,
                          !.inputPtr = @ + 1,
                          !.wordsCommitted = @ + 1]
  IN IF stored.inputPtr >= endOfBuffer
     THEN [stored EXCEPT !.inputPtr = startOfBuffer, !.bufferHasWrapped = TRUE]
     ELSE stored

\* CommitWord that wraps the cursor but leaves bufferHasWrapped alone
CommitWordNoFlag(s, usb) ==
  LET stored == [s EXCEPT !.buffer[s.inputPtr] = s.workingValue,
                          !.inputPtr = @ + 1,
                          !.wordsCommitted = @ + 1]
  IN IF stored.inputPtr >= endOfBuffer
     THEN LET wrapped == [stored EXCEPT !.inputPtr = startOfBuffer]
          IN IF usb THEN HaltDueToUSB(wrapped) ELSE wrapped
     ELSE stored

\* lines 117-143 and 221-247: store the working word, advance the cursor,
\* wrap at the end of the region and poll the host there
CommitWord(s, usb) ==
  LET stored == [s EXCEPT !.buffer[s.inputPtr] = s.workingValue,
                          !.inputPtr = @ + 1,
                          !.wordsCommitted = @ + 1]
  IN IF stored.inputPtr >= endOfBuffer
     THEN LET wrapped == [stored EXCEPT !.inputPtr = startOfBuffer,
                                        !.bufferHasWrapped = TRUE]
          IN IF usb THEN HaltDueToUSB(wrapped) ELSE wrapped
     ELSE stored

\* NewValue without the test of line 110: packs the sample and counts down
\* even when the working word is full
NewValueNoCommit(s, usb) ==
  [s EXCEPT !.workingValue =
               ShiftLeft(s.workingValue, sampleShift) + s.sampleValue,
            !.workingCount = @ - 1,
            !.previousSampleValue = s.sampleValue,
            !.rleInProgress = FALSE]

\* NewValue that restarts the working word empty after the commit of line
\* 117, without the sample just read
NewValueRestartsEmpty(s, usb) ==
  IF s.workingCount = 0
  THEN LET c == CommitWord(s, usb)
       IN IF c.pc # "loop" THEN c
          ELSE [c EXCEPT !.workingValue = 0,
                         !.workingCount = samplesPerElement,
                         !.previousSampleValue = s.sampleValue,
                         !.rleInProgress = FALSE]
  ELSE [s EXCEPT !.workingValue =
                    ShiftLeft(s.workingValue, sampleShift) + s.sampleValue,
                 !.workingCount = @ - 1,
                 !.previousSampleValue = s.sampleValue,
                 !.rleInProgress = FALSE]

\* lines 108-162: the sample differs from the previous one
NewValue(s, usb) ==
  IF s.workingCount = 0
  THEN LET c == CommitWord(s, usb)
       IN IF c.pc # "loop" THEN c
          ELSE [c EXCEPT !.workingValue = s.sampleValue,
                         !.workingCount = samplesPerElementMinusOne,
                         !.previousSampleValue = s.sampleValue,
                         !.rleInProgress = FALSE]
  ELSE [s EXCEPT !.workingValue =
                    ShiftLeft(s.workingValue, sampleShift) + s.sampleValue,
                 !.workingCount = @ - 1,
                 !.previousSampleValue = s.sampleValue,
                 !.rleInProgress = FALSE]

\* SameValue without the forced close of a run whose count is at its maximum
SameValueNoSaturation(s, usb) ==
  LET opened == IF s.rleInProgress = FALSE
                THEN [s EXCEPT !.workingValue =
                                  ShiftLeft(s.workingValue, sampleShift)
                                     + rleCountIndicator,
                               !.workingCount = @ - 1,
                               !.rleInProgress = TRUE]
                ELSE s
  IN [opened EXCEPT !.workingValue = @ + 1]

\* SameValue that opens a run with count 0: the increment of line 178 only
\* for a run already open
SameValueOpensAtZero(s, usb) ==
  LET opened == IF s.rleInProgress = FALSE
                THEN [s EXCEPT !.workingValue =
                                  ShiftLeft(s.workingValue, sampleShift)
                                     + rleCountIndicator,
                               !.workingCount = @ - 1,
                               !.rleInProgress = TRUE]
                ELSE s
      counted == IF s.rleInProgress = FALSE THEN opened
                 ELSE [opened EXCEPT !.workingValue = @ + 1]
  IN IF BitAnd(counted.workingValue, sampleMask) = sampleMask
     THEN LET closed == [counted EXCEPT !.rleInProgress = FALSE]
          IN IF closed.workingCount # 0 /\ usb THEN HaltDueToUSB(closed)
             ELSE closed
     ELSE counted

\* lines 163-212: the sample repeats the previous one
SameValue(s, usb) ==
  LET opened == IF s.rleInProgress = FALSE
                THEN [s EXCEPT !.workingValue =
                                  ShiftLeft(s.workingValue, sampleShift)
                                     + rleCountIndicator,
                               !.workingCount = @ - 1,
                               !.rleInProgress = TRUE]
                ELSE s
      counted == [opened EXCEPT !.workingValue = @ + 1]
  IN IF BitAnd(counted.workingValue, sampleMask) = sampleMask
     THEN LET closed == [counted EXCEPT !.rleInProgress = FALSE]
          IN IF closed.workingCount # 0 /\ usb THEN HaltDueToUSB(closed)
             ELSE closed
     ELSE counted

\* SaveWorkingValue that keeps the first value it saved
SaveWorkingValueOnce(s, usb) ==
  IF s.workingCount = 0 /\ s.rleInProgress = FALSE
  THEN LET c == CommitWord(s, usb)
       IN IF c.pc # "loop" THEN c
          ELSE [c EXCEPT !.workingCount = samplesPerElement,
                         !.workingValue = 0]
  ELSE IF s.workingCount = 1 /\ s.firstValueSaves = 0
       THEN IF BitAnd(s.buffer[s.inputPtr], anyDataMask) # anyDataMask
            THEN [s EXCEPT !.previousFirstValue = s.buffer[s.inputPtr],
                           !.firstValueSaves = @ + 1]
            ELSE s
       ELSE s

\* lines 214-268: commit the full word, or look at the word about to be
\* overwritten
SaveWorkingValue(s, usb) ==
  IF s.workingCount = 0 /\ s.rleInProgress = FALSE
  THEN LET c == CommitWord(s, usb)
       IN IF c.pc # "loop" THEN c
          ELSE [c EXCEPT !.workingCount = samplesPerElement,
                         !.workingValue = 0]
  ELSE IF s.workingCount = 1
       THEN IF BitAnd(s.buffer[s.inputPtr], anyDataMask) # anyDataMask
            THEN [s EXCEPT !.previousFirstValue = s.buffer[s.inputPtr],
                           !.firstValueSaves = @ + 1]
            ELSE s
       ELSE s

----------------------------------------------------------------------------
(* The capture state machine, lines 276-397: one case per iteration *)

\* lines 291-298 and 328-335: the trigger fires
TriggerFires(s) ==
  [s EXCEPT !.triggerCount = s.workingCount,
            !.startPtr = s.inputPtr - sv.delaySizeInElements,
            !.switch_ptr = "Triggered_First_Pass"]

\* LookingForTrigger that tests the word under the cursor instead of the
\* sample
LookingForTriggerReadsBuffer(s) ==
  IF BitAnd(s.buffer[s.inputPtr], s.triggerMask) = s.triggerValue
  THEN IF s.triggerDelay > 0
       THEN [s EXCEPT !.switch_ptr = "TriggerDelay"]
       ELSE IF s.currentTriggerLevel >= sv.lastTriggerLevel
            THEN TriggerFires(s)
            ELSE [s EXCEPT !.currentTriggerLevel = @ + 1,
                           !.triggerMask = sv.triggerMask[s.currentTriggerLevel + 1],
                           !.triggerValue = sv.triggerValue[s.currentTriggerLevel + 1]]
  ELSE s

\* LookingForTrigger that fires on any matching level, without the test of
\* line 289
LookingForTriggerIgnoresLevel(s) ==
  IF BitAnd(s.sampleValue, s.triggerMask) = s.triggerValue
  THEN IF s.triggerDelay > 0
       THEN [s EXCEPT !.switch_ptr = "TriggerDelay"]
       ELSE TriggerFires(s)
  ELSE s

\* lines 279-320
LookingForTrigger(s) ==
  IF BitAnd(s.sampleValue, s.triggerMask) = s.triggerValue
  THEN IF s.triggerDelay > 0
       THEN [s EXCEPT !.switch_ptr = "TriggerDelay"]
       ELSE IF s.currentTriggerLevel >= sv.lastTriggerLevel
            THEN TriggerFires(s)
            ELSE [s EXCEPT !.currentTriggerLevel = @ + 1,
                           !.triggerMask = sv.triggerMask[s.currentTriggerLevel + 1],
                           !.triggerValue = sv.triggerValue[s.currentTriggerLevel + 1]]
  ELSE s

\* lines 322-346; the state is entered with triggerDelay > 0 (line 284) and
\* left when it is 0, so the unsigned decrement does not wrap
TriggerDelay(s) ==
  LET d == s.triggerDelay - 1
      t == [s EXCEPT !.triggerDelay = d]
  IN IF d = 0
     THEN IF t.currentTriggerLevel >= sv.lastTriggerLevel
          THEN TriggerFires(t)
          ELSE [t EXCEPT !.currentTriggerLevel = @ + 1,
                         !.triggerMask = sv.triggerMask[s.currentTriggerLevel + 1],
                         !.triggerValue = sv.triggerValue[s.currentTriggerLevel + 1],
                         !.triggerDelay = sv.triggerDelay[s.currentTriggerLevel + 1],
                         !.switch_ptr = "LookingForTrigger"]
     ELSE t

\* Triggered that raises the 'triggered' signal itself, on every iteration
\* that does not end the capture
TriggeredSignalsAgain(s) ==
  IF s.inputPtr = s.startPtr THEN [s EXCEPT !.pc = "DoneRecording"]
  ELSE [s EXCEPT !.ledOffCalls = @ + 1]

\* lines 348-355
Triggered(s) ==
  IF s.inputPtr = s.startPtr THEN [s EXCEPT !.pc = "DoneRecording"] ELSE s

\* Buffering that arms the trigger wherever the cursor is
BufferingArmsAtOnce(s) ==
  [s EXCEPT !.switch_ptr = "LookingForTrigger", !.ledOnCalls = @ + 1]

\* lines 357-371
Buffering(s) ==
  IF s.inputPtr >= s.startPtr
  THEN [s EXCEPT !.switch_ptr = "LookingForTrigger", !.ledOnCalls = @ + 1]
  ELSE s

\* lines 373-388
Triggered_Second_Pass(s) ==
  LET adjusted == IF s.startPtr < startOfBuffer
                  THEN s.startPtr + elementsToRecord
                  ELSE s.startPtr
  IN [s EXCEPT !.startPtr = adjusted, !.switch_ptr = "Triggered"]

\* lines 390-396
Triggered_First_Pass(s) ==
  [s EXCEPT !.switch_ptr = "Triggered_Second_Pass", !.ledOffCalls = @ + 1]

\* line 276: goto *switch_ptr
Dispatch(s) ==
  CASE s.switch_ptr = "LookingForTrigger" -> LookingForTrigger(s)
    [] s.switch_ptr = "TriggerDelay" -> TriggerDelay(s)
    [] s.switch_ptr = "Triggered" -> Triggered(s)
    [] s.switch_ptr = "Buffering" -> Buffering(s)
    [] s.switch_ptr = "Triggered_Second_Pass" -> Triggered_Second_Pass(s)
    [] s.switch_ptr = "Triggered_First_Pass" -> Triggered_First_Pass(s)

\* ReadSample that masks with the whole slot, marker bit included
ReadSampleWholeSlot(port) == BitAnd(port, sv.sampleMask)

\* line 106: read a sample
ReadSample(port) == BitAnd(port, sampleMask)

\* lines 101-399: one pass through the while (1) body; a break skips the
\* rest of the body
LoopBody(s, port, usb) ==
  LET r == [s EXCEPT !.sampleValue = ReadSample(port)]
      e == IF r.sampleValue # r.previousSampleValue
           THEN NewValue(r, usb) ELSE SameValue(r, usb)
      f == IF e.pc = "loop" THEN SaveWorkingValue(e, usb) ELSE e
  IN IF f.pc = "loop" THEN Dispatch(f) ELSE f

----------------------------------------------------------------------------
(* After the loop, lines 401-435 *)

\* an int converted to uint32_t, as the halves hi * 2^16 + lo; a negative
\* v becomes 2^32 + v = 2^31 + (v + 2^31)
ToUint32(v) ==
  IF v >= 0 THEN [hi |-> v \div Half, lo |-> v % Half]
  ELSE LET m == (v + 2147483647) + 1
       IN [hi |-> 32768 + m \div Half, lo |-> m % Half]

\* a >= b on uint32_t
U32GreaterEq(a, b) == a.hi > b.hi \/ (a.hi = b.hi /\ a.lo >= b.lo)

\* a - b on uint32_t
U32Minus(a, b) ==
  LET low == a.lo - b.lo
      borrow == IF low < 0 THEN 1 ELSE 0
  IN [hi |-> (a.hi - b.hi - borrow) % Half, lo |-> low % Half]

\* lines 415-423: the index is computed in int, stored in the unsigned
\* dynamic.triggerSampleIndex and reduced there
TriggerSampleIndex(s) ==
  LET raw == ToUint32((s.startPtr + sv.delaySizeInElements - startOfBuffer)
                         * samplesPerElement
                       + samplesPerElementMinusOne - s.triggerCount)
      limit == ToUint32(sv.samplesToRecord)
  IN IF U32GreaterEq(raw, limit) THEN U32Minus(raw, limit) ELSE raw

\* lines 425-435
InterruptedIndex(s) ==
  IF s.inputPtr # s.startPtr
  THEN LET deltaElements == s.inputPtr - startOfBuffer
           corrected == IF deltaElements < 0 THEN deltaElements + elementsToRecord
                        ELSE deltaElements
       IN corrected * samplesPerElement
  ELSE s.interruptedIndex

Finish(s) ==
  [s EXCEPT !.firstRLEValue = s.previousFirstValue,
            !.triggerSampleIndex = TriggerSampleIndex(s),
            !.dynamicBufferHasWrapped = s.bufferHasWrapped,
            !.interruptedIndex = InterruptedIndex(s),
            !.pc = "returned"]

----------------------------------------------------------------------------
(* The state machine of the model *)

Init ==
  /\ sv \in Setups
  /\ \E fill \in BufferFills(sv) :
        /\ run = InitialLocals(sv, fill)
        /\ twin = InitialLocals(sv, OtherFill(sv, fill))
  /\ usbPending = FALSE
  /\ samples = << >>
  /\ armedAt = 0
  /\ matchAt = [l \in 0 .. sv.lastTriggerLevel |-> 0]
  /\ firedAt = 0
  /\ wordsAtFire = 0
  /\ pendingFor = 0

\* usbInterruptPending () turns true when the host sends data; interrupts
\* are masked during the capture, so it stays true
HostSendsData ==
  /\ run.pc = "loop"
  /\ usbPending = FALSE
  /\ usbPending' = TRUE
  /\ UNCHANGED <<sv, run, twin, samples, armedAt, matchAt, firedAt, wordsAtFire,
                 pendingFor>>

\* history of the trigger: the sample numbers (1-based) at which the
\* capture was armed, a level's match was accepted, the trigger fired, and
\* the number of words committed when it fired
TriggerHistory ==
  LET n == Len(samples')
      dispatched == run'.pc = "loop" \/ run.switch_ptr = "Triggered"
      fired == /\ run.switch_ptr # "Triggered_First_Pass"
               /\ run'.switch_ptr = "Triggered_First_Pass"
  IN /\ armedAt' = IF run.switch_ptr = "Buffering"
                      /\ run'.switch_ptr = "LookingForTrigger"
                   THEN n ELSE armedAt
     /\ matchAt' = IF /\ run.switch_ptr = "LookingForTrigger"
                      /\ dispatched
                      /\ \/ run'.switch_ptr # "LookingForTrigger"
                         \/ run'.currentTriggerLevel # run.currentTriggerLevel
                   THEN [matchAt EXCEPT ![run.currentTriggerLevel] = n]
                   ELSE matchAt
     /\ firedAt' = IF fired THEN n ELSE firedAt
     /\ wordsAtFire' = IF fired THEN run'.wordsCommitted ELSE wordsAtFire

\* one iteration of the while (1) loop, entered with switch_ptr = label
Iteration(label) ==
  /\ run.pc = "loop"
  /\ run.switch_ptr = label
  /\ Len(samples) < MaxSamples
  /\ \E port \in PortValues :
        /\ run' = LoopBody(run, port, usbPending)
        /\ twin' = IF twin.pc = "loop" THEN LoopBody(twin, port, usbPending)
                   ELSE twin
        /\ samples' = Append(samples, ReadSample(port))
  /\ TriggerHistory
  /\ UNCHANGED <<sv, usbPending, pendingFor>>

BufferingIteration == Iteration("Buffering")
LookingForTriggerIteration == Iteration("LookingForTrigger")
TriggerDelayIteration == Iteration("TriggerDelay")
TriggeredFirstPassIteration == Iteration("Triggered_First_Pass")
TriggeredSecondPassIteration == Iteration("Triggered_Second_Pass")
TriggeredIteration == Iteration("Triggered")

\* DoneRecording: lines 401-436
DoneRecording ==
  /\ run.pc = "DoneRecording"
  /\ run' = Finish(run)
  /\ twin' = IF twin.pc = "DoneRecording" THEN Finish(twin) ELSE twin
  /\ UNCHANGED <<sv, usbPending, samples, armedAt, matchAt, firedAt,
                 wordsAtFire, pendingFor>>

Next ==
  \/ HostSendsData
  \/ BufferingIteration
  \/ LookingForTriggerIteration
  \/ TriggerDelayIteration
  \/ TriggeredFirstPassIteration
  \/ TriggeredSecondPassIteration
  \/ TriggeredIteration
  \/ DoneRecording

Spec == Init /\ [][Next]_vars

TypeOK ==
  /\ run.pc \in {"loop", "DoneRecording", "returned"}
  /\ usbPending \in BOOLEAN
  /\ Len(samples) <= MaxSamples

----------------------------------------------------------------------------
(* Vocabulary of the properties *)

\* this step is a loop iteration: it read a sample
IterationStep == samples' # samples

\* the loop was left by a break after set_led_off and SUMPreset
HaltedNow ==
  /\ run'.halted
  /\ run'.pc = "DoneRecording"
  /\ run'.resetCalls = run.resetCalls + 1
  /\ run'.ledOffCalls = run.ledOffCalls + 1

\* the iteration committed a word and the cursor wrapped to startOfBuffer
CursorWrapped ==
  /\ run'.wordsCommitted > run.wordsCommitted
  /\ run'.inputPtr = startOfBuffer

\* the iteration repeated the previous sample, the RLE count reached its
\* maximum and the working word still has room
CountSaturatedWithRoom ==
  /\ run'.sampleValue = run.previousSampleValue
  /\ BitAnd(run'.workingValue, sampleMask) = sampleMask
  /\ run'.workingCount # 0

TriggerConfigured == sv.triggerMask[0] # 0

BufferCapacity == endOfBuffer - startOfBuffer

CleanCompletion == run.pc # "loop" /\ ~run.halted

----------------------------------------------------------------------------
(* C1 *)

\* C1 as stated: every iteration that runs while the host interrupt is
\* pending leaves the loop in that iteration and invokes the reset.
C1_EveryIterationExits ==
  [][(IterationStep /\ usbPending) => HaltedNow]_vars

\* C1 amended: the host interrupt is polled only where the cursor wraps
\* after a commit or where an RLE count saturates with room left in the
\* working word.  An iteration that runs with the interrupt pending leaves
\* the loop (set_led_off, SUMPreset, break) exactly if it is one of those,
\* whatever the capture state; no iteration halts without the interrupt.
C1_ExitsWherePolled ==
  [][IterationStep =>
       /\ usbPending => (HaltedNow <=> (CursorWrapped \/ CountSaturatedWithRoom))
       /\ ~usbPending => ~run'.halted /\ run'.resetCalls = 0]_vars

\* a capture armed and looking for its trigger was halted by the poll at
\* a saturated RLE count, before the buffer ever wrapped
C1_Witness ==
  /\ run.halted
  /\ run.resetCalls = 1
  /\ run.switch_ptr = "LookingForTrigger"
  /\ ~run.bufferHasWrapped

----------------------------------------------------------------------------
(* C2 *)

\* C2 as stated: at return, dynamic.interruptedIndex has been written if
\* and only if the loop was ended by the host-interrupt abort.
C2_InterruptedIndexIffAborted ==
  run.pc = "returned" => ((run.interruptedIndex # Unset) <=> run.halted)

----------------------------------------------------------------------------
(* C3 *)

\* C3 as stated: without trigger and without abort the capture ends when
\* exactly C words have been committed.
C3_FillsWholeBuffer ==
  (~TriggerConfigured /\ CleanCompletion) => run.wordsCommitted = BufferCapacity

\* C3 amended: without trigger the capture never enters Buffering,
\* LookingForTrigger or TriggerDelay, and (for samplesPerElement >= 2 and
\* C >= 2) a capture that is not aborted ends in the iteration that commits
\* word C - 1: the loop runs while fewer than C - 1 words are committed, and
\* ends with the cursor on the last word of the region, that word never
\* written (it still differs between two runs started on different buffer
\* contents) and the buffer not wrapped.
C3_FillsAllButLastWord ==
  ~TriggerConfigured =>
    /\ run.switch_ptr \in {"Triggered_Second_Pass", "Triggered"}
    /\ run.pc = "loop" => run.wordsCommitted < BufferCapacity - 1
    /\ CleanCompletion =>
         /\ run.wordsCommitted = BufferCapacity - 1
         /\ run.inputPtr = endOfBuffer - 1
         /\ ~run.bufferHasWrapped
         /\ run.buffer[endOfBuffer - 1] # twin.buffer[endOfBuffer - 1]

\* a capture without trigger returned without abort
C3_Witness ==
  /\ ~TriggerConfigured
  /\ run.pc = "returned"
  /\ ~run.halted
  /\ ~usbPending
  /\ run.wordsCommitted = BufferCapacity - 1

----------------------------------------------------------------------------
(* C4 *)

\* C4: the cursor is startOfBuffer + (words committed mod C), and
\* bufferHasWrapped is true exactly when at least C words have been
\* committed (so it is never cleared); the flag is returned as it is.
C4_CursorAndWrapFlag ==
  /\ run.inputPtr = startOfBuffer + (run.wordsCommitted % BufferCapacity)
  /\ run.bufferHasWrapped <=> (run.wordsCommitted >= BufferCapacity)
  /\ run.pc = "returned" => run.dynamicBufferHasWrapped = run.bufferHasWrapped

\* a recording of more than C words returned
C4_Witness ==
  /\ run.pc = "returned"
  /\ run.wordsCommitted > BufferCapacity
  /\ run.dynamicBufferHasWrapped

----------------------------------------------------------------------------
(* C5, C6: the trigger levels *)

LastLevel == sv.lastTriggerLevel

\* sample number n (1-based) satisfies the configured level l
SampleMatchesLevel(n, l) ==
  BitAnd(samples[n], sv.triggerMask[l]) = sv.triggerValue[l]

\* C5: levels complete in index order on strictly increasing samples, each
\* on a sample after arming that satisfies that level's mask and value; the
\* trigger fires only with currentTriggerLevel = lastTriggerLevel, after the
\* last level's match, and when that level has no delay, on the matching
\* sample itself (otherwise its delay later or on the matching sample).
C5_LevelsInOrder ==
  TriggerConfigured =>
    /\ run.currentTriggerLevel <= LastLevel
    /\ \A l \in 0 .. LastLevel :
         matchAt[l] # 0 =>
           /\ armedAt # 0
           /\ matchAt[l] > armedAt
           /\ SampleMatchesLevel(matchAt[l], l)
           /\ l > 0 => (matchAt[l - 1] # 0 /\ matchAt[l - 1] < matchAt[l])
           /\ l < LastLevel => (firedAt = 0 \/ matchAt[l + 1] # 0)
    /\ \A l \in 0 .. LastLevel :
         run.currentTriggerLevel > l => matchAt[l] # 0
    /\ firedAt # 0 =>
         /\ run.currentTriggerLevel = LastLevel
         /\ matchAt[LastLevel] # 0
         /\ firedAt - matchAt[LastLevel] \in {0, sv.triggerDelay[LastLevel]}
         /\ sv.triggerDelay[LastLevel] = 0 => SampleMatchesLevel(firedAt, LastLevel)

\* a two-level trigger fired; the sample that completed level 0 also
\* satisfied level 1, which was completed by the next sample
C5_Witness ==
  /\ TriggerConfigured
  /\ LastLevel = 1
  /\ firedAt # 0
  /\ SampleMatchesLevel(matchAt[0], 1)
  /\ matchAt[1] = matchAt[0] + 1
  /\ firedAt = matchAt[1]

\* C6 as stated: a level with configured delay d > 0 neither advances nor
\* fires before d further samples after its match, also when it was reached
\* from a level without delay.
C6_DelayOfEveryLevelHonoured ==
  \A l \in 0 .. LastLevel :
    (matchAt[l] # 0 /\ sv.triggerDelay[l] > 0) =>
      /\ (l < LastLevel /\ matchAt[l + 1] # 0) =>
            matchAt[l + 1] > matchAt[l] + sv.triggerDelay[l]
      /\ (l = LastLevel /\ firedAt # 0) =>
            firedAt >= matchAt[l] + sv.triggerDelay[l]

----------------------------------------------------------------------------
(* C7: the companion decoder *)

\* the lowest k slots of a word, most significant first
SlotsOf(word, k) ==
  [i \in 1 .. k |-> (word \div Pow2(sampleShift * (k - i))) % Pow2(sampleShift)]

RECURSIVE WordsToSlots(_, _)
WordsToSlots(from, to) ==
  IF from >= to THEN << >>
  ELSE SlotsOf(run.buffer[from], samplesPerElement) \o WordsToSlots(from + 1, to)

\* the committed words of a buffer that has not wrapped, in cursor order
CommittedSlots == WordsToSlots(startOfBuffer, run.inputPtr)

\* the slots packed so far into the uncommitted working word
AccumulatorSlots == SlotsOf(run.workingValue, samplesPerElement - run.workingCount)

IsRLESlot(slot) == BitAnd(slot, rleCountIndicator) # 0

Repeat(v, n) == [i \in 1 .. n |-> v]

\* a slot without the marker is one sample; a slot with the marker and
\* count n is n further repeats of the preceding value
RECURSIVE DecodeSlots(_, _)
DecodeSlots(slots, out) ==
  IF slots = << >> THEN out
  ELSE IF IsRLESlot(Head(slots))
       THEN DecodeSlots(Tail(slots),
                        out \o Repeat(IF out = << >> THEN -1 ELSE out[Len(out)],
                                      BitAnd(Head(slots), sampleMask)))
       ELSE DecodeSlots(Tail(slots), Append(out, Head(slots)))

IsPrefix(a, b) == Len(a) <= Len(b) /\ a = SubSeq(b, 1, Len(a))

\* C7: while the buffer has not wrapped, decoding the committed words
\* gives a prefix of the samples read, and decoding them followed by the
\* slots of the uncommitted working word gives all the samples read.
C7_RoundTrip ==
  ~run.bufferHasWrapped =>
    /\ IsPrefix(DecodeSlots(CommittedSlots, << >>), samples)
    /\ DecodeSlots(CommittedSlots \o AccumulatorSlots, << >>) = samples

\* a run longer than the maximum count: a committed word ends with an RLE
\* slot at the maximum count and the same run goes on in the next slot
C7_Witness ==
  /\ ~run.bufferHasWrapped
  /\ run.wordsCommitted >= 1
  /\ \E i \in 1 .. Len(CommittedSlots \o AccumulatorSlots) - 1 :
        LET slots == CommittedSlots \o AccumulatorSlots
        IN /\ IsRLESlot(slots[i])
           /\ BitAnd(slots[i], sampleMask) = sampleMask
           /\ IsRLESlot(slots[i + 1])
  /\ \E i \in 1 .. Len(samples) - 1 : samples[i] # samples[i + 1]

----------------------------------------------------------------------------
(* C8: firstRLEValue *)

\* C8 as stated: previousFirstValue is captured at most once per capture.
C8_CapturedAtMostOnce == run.firstValueSaves <= 1

\* the word under the cursor after this iteration still holds samples
WordUnderCursorHasData ==
  BitAnd(run'.buffer[run'.inputPtr], anyDataMask) # anyDataMask

\* C8 amended: previousFirstValue is saved again at the end of every
\* iteration that does not halt and leaves workingCount = 1, at whatever
\* position the cursor is, if the word under the cursor (the next to be
\* overwritten) is not made of RLE counts only; it then holds that word's
\* content.  No other iteration changes it, and sv.firstRLEValue returns the
\* value of the last save (0 if there was none).
C8_SavedBeforeEveryOverwrite ==
  /\ [][IterationStep =>
          IF ~run'.halted /\ run'.workingCount = 1 /\ WordUnderCursorHasData
          THEN /\ run'.previousFirstValue = run'.buffer[run'.inputPtr]
               /\ run'.firstValueSaves = run.firstValueSaves + 1
          ELSE /\ run'.previousFirstValue = run.previousFirstValue
               /\ run'.firstValueSaves = run.firstValueSaves]_vars
  /\ [](run.pc = "returned" => run.firstRLEValue = run.previousFirstValue)
  /\ [](run.firstValueSaves = 0 => run.previousFirstValue = 0)

\* a capture that wrapped returned, as sv.firstRLEValue, a word it had
\* committed itself and later overwritten, after several saves
C8_Witness ==
  /\ run.pc = "returned"
  /\ run.bufferHasWrapped
  /\ run.firstValueSaves >= 3
  /\ run.firstRLEValue \notin BufferFills(sv)
  /\ \A a \in startOfBuffer .. endOfBuffer - 1 : run.buffer[a] # run.firstRLEValue

----------------------------------------------------------------------------
(* C9: trigger index determinism *)

\* C9: a second run of the same setup on the same samples, started on
\* other buffer contents, returns when the first does, with the same
\* dynamic.triggerSampleIndex.
C9_TriggerIndexDeterminism ==
  /\ twin.pc = run.pc
  /\ run.pc = "returned" => twin.triggerSampleIndex = run.triggerSampleIndex

\* two triggered captures without host interrupt returned; their buffers
\* started different and what they saved from them differs
C9_Witness ==
  /\ run.pc = "returned"
  /\ twin.pc = "returned"
  /\ ~usbPending
  /\ firedAt # 0
  /\ run.firstRLEValue # twin.firstRLEValue
  /\ run.triggerSampleIndex = twin.triggerSampleIndex

----------------------------------------------------------------------------
(* C10: the end position after the trigger *)

\* C10 as stated: for every pre-trigger depth, once the trigger has fired
\* the startPtr left by Triggered_Second_Pass lies inside the buffer region,
\* so that the cursor can reach it.
C10_StartPtrInsideBuffer ==
  (TriggerConfigured /\ run.switch_ptr = "Triggered") =>
     (startOfBuffer <= run.startPtr /\ run.startPtr < endOfBuffer)

----------------------------------------------------------------------------
(* C11: the cursor stays inside the buffer region *)

CursorInsideBuffer(s) == startOfBuffer <= s.inputPtr /\ s.inputPtr < endOfBuffer

\* C11: the cursor is inside [startOfBuffer, endOfBuffer) when an iteration
\* starts and when it ends, so at every buffer access in between (the
\* cursor moves only in a commit); an iteration that commits a word leaves
\* the cursor one word further or, exactly when that is endOfBuffer, on
\* startOfBuffer; an iteration that commits nothing leaves it in place.
C11_CursorInsideBuffer ==
  [][IterationStep =>
       /\ CursorInsideBuffer(run)
       /\ CursorInsideBuffer(run')
       /\ IF run'.wordsCommitted = run.wordsCommitted
          THEN run'.inputPtr = run.inputPtr
          ELSE /\ run'.wordsCommitted = run.wordsCommitted + 1
               /\ run'.inputPtr = IF run.inputPtr + 1 = endOfBuffer
                                  THEN startOfBuffer
                                  ELSE run.inputPtr + 1]_vars

\* the cursor has gone round the region more than once and is in the loop
C11_Witness ==
  /\ run.pc = "loop"
  /\ run.wordsCommitted > BufferCapacity
  /\ run.inputPtr = endOfBuffer - 1

----------------------------------------------------------------------------
(* C12: the range of workingCount *)

\* C12: workingCount is in [0, samplesPerElement] in every state, and at
\* the top of an iteration workingCount == 0 only with an RLE run in
\* progress, the one case in which neither branch decrements it.
C12_WorkingCountInRange ==
  /\ 0 <= run.workingCount
  /\ run.workingCount <= samplesPerElement
  /\ (run.pc = "loop" /\ run.workingCount = 0) => run.rleInProgress

\* an iteration is about to start on a full working word whose last slot is
\* an open RLE count, after words were committed
C12_Witness ==
  /\ run.pc = "loop"
  /\ run.workingCount = 0
  /\ run.rleInProgress
  /\ run.wordsCommitted >= 2

----------------------------------------------------------------------------
(* C13: when the working word is committed *)

\* the iteration stored a word at the cursor
Committed == run'.wordsCommitted > run.wordsCommitted

\* C13 as stated: no iteration ends with workingCount == 0, and an
\* iteration that commits restarts the working word empty with full
\* capacity.
C13_CommittedWhenFull ==
  [][(IterationStep /\ ~run'.halted) =>
       /\ run'.workingCount # 0
       /\ Committed => (run'.workingValue = 0
                          /\ run'.workingCount = samplesPerElement)]_vars

\* C13 amended: an iteration ends with workingCount == 0 exactly when the
\* last slot of the working word is an RLE count still open, and then
\* nothing is committed.  A full word is committed at the cursor in the
\* iteration that fills it with a sample or with a count that is at once at
\* its maximum (restart empty, full capacity), or in the iteration that ends
\* the open run: by saturation (restart empty, full capacity) or by a
\* differing sample, which is stored after the commit (workingValue ==
\* sampleValue, workingCount == samplesPerElement - 1).
C13_CommittedWhenRunCloses ==
  [][(IterationStep /\ ~run'.halted) =>
       /\ run'.workingCount = 0 => (run'.rleInProgress /\ ~Committed)
       /\ Committed =>
            /\ run.workingCount \in {0, 1}
            /\ ~run'.rleInProgress
            /\ IF run.workingCount = 0 /\ run'.sampleValue # run.previousSampleValue
               THEN /\ run'.buffer[run.inputPtr] = run.workingValue
                    /\ run'.workingValue = run'.sampleValue
                    /\ run'.workingCount = samplesPerElement - 1
               ELSE /\ run'.workingValue = 0
                    /\ run'.workingCount = samplesPerElement
                    /\ run.workingCount = 0 =>
                         run'.buffer[run.inputPtr] = run.workingValue + 1
       /\ (run.workingCount = 0 /\ ~Committed) =>
            (run'.workingCount = 0 /\ run'.rleInProgress)]_vars

\* a word whose last slot is an RLE count below the maximum was committed
\* by the differing sample that now sits alone in the working word
C13_Witness ==
  /\ run.pc = "loop"
  /\ ~run.bufferHasWrapped
  /\ run.inputPtr > startOfBuffer
  /\ IsRLESlot(run.buffer[run.inputPtr - 1] % Pow2(sampleShift))
  /\ BitAnd(run.buffer[run.inputPtr - 1], sampleMask) < sampleMask
  /\ run.workingCount = samplesPerElement - 1
  /\ run.workingValue = run.sampleValue
  /\ run.workingValue # 0

----------------------------------------------------------------------------
(* C14: who sets the marker bit *)

LowestSlot(word) == word % Pow2(sampleShift)

UpperSlots(word) == word \div Pow2(sampleShift)

\* the word the iteration packed into: the one it stored at the end if it
\* stored one there, else the working word
PackedWord ==
  IF Committed /\ run'.workingCount = samplesPerElement
  THEN run'.buffer[run.inputPtr]
  ELSE run'.workingValue

\* C14: slot by slot.  A differing sample appends a slot that holds the
\* sample, within sampleMask >> 1 and without the marker; a repeated sample
\* with no run open appends a slot with the marker and count 1; a repeated
\* sample with a run open adds one to the count of the lowest slot, which
\* keeps its marker; in each case the slots packed earlier keep their value,
\* and a word committed before the sample is packed is stored as it was.
C14_MarkerOnlyFromRLEPath ==
  [][(IterationStep /\ ~run'.halted) =>
       IF run'.sampleValue # run.previousSampleValue
       THEN /\ LowestSlot(PackedWord) = run'.sampleValue
            /\ run'.sampleValue <= sampleMask
            /\ ~IsRLESlot(LowestSlot(PackedWord))
            /\ IF run.workingCount = 0
               THEN /\ UpperSlots(PackedWord) = 0
                    /\ run'.buffer[run.inputPtr] = run.workingValue
               ELSE UpperSlots(PackedWord) = run.workingValue
       ELSE IF ~run.rleInProgress
            THEN /\ LowestSlot(PackedWord) = rleCountIndicator + 1
                 /\ UpperSlots(PackedWord) = run.workingValue
            ELSE /\ IsRLESlot(LowestSlot(run.workingValue))
                 /\ IsRLESlot(LowestSlot(PackedWord))
                 /\ BitAnd(PackedWord, sampleMask)
                      = BitAnd(run.workingValue, sampleMask) + 1
                 /\ UpperSlots(PackedWord) = UpperSlots(run.workingValue)]_vars

\* a committed word holds the largest sample value next to an RLE count at
\* its maximum
C14_Witness ==
  /\ ~run.bufferHasWrapped
  /\ run.inputPtr > startOfBuffer
  /\ LET slots == SlotsOf(run.buffer[startOfBuffer], samplesPerElement)
     IN \E i \in 1 .. samplesPerElement - 1 :
           /\ slots[i] = sampleMask
           /\ slots[i + 1] = rleCountIndicator + sampleMask

----------------------------------------------------------------------------
(* C15: saturation of the RLE count *)

\* the slots written by the capture s: those of the words it committed and
\* of its working word
WrittenSlots(s) ==
  LET words == IF s.bufferHasWrapped THEN startOfBuffer .. endOfBuffer - 1
               ELSE startOfBuffer .. s.inputPtr - 1
  IN UNION { { SlotsOf(s.buffer[w], samplesPerElement)[i] :
                 i \in 1 .. samplesPerElement } : w \in words }
       \cup { SlotsOf(s.workingValue, samplesPerElement - s.workingCount)[i] :
                i \in 1 .. samplesPerElement - s.workingCount }

RLECount(slot) == BitAnd(slot, sampleMask)

\* C15: after every iteration the count of every RLE slot written is in
\* [1, sampleMask >> 1], and a run still open has a count below the maximum;
\* a repeated sample that brings the count to the maximum closes the run in
\* that iteration; a repeated sample with no run open, as after a saturation,
\* opens a slot with count 1; the iteration read exactly one sample.
C15_SaturationPolicy ==
  [][IterationStep =>
       /\ \A slot \in WrittenSlots(run') :
             IsRLESlot(slot) => (1 <= RLECount(slot) /\ RLECount(slot) <= sampleMask)
       /\ run'.rleInProgress =>
             /\ IsRLESlot(LowestSlot(run'.workingValue))
             /\ RLECount(run'.workingValue) < sampleMask
       /\ (run'.sampleValue = run.previousSampleValue /\ ~run'.halted) =>
             /\ RLECount(PackedWord) = sampleMask <=> ~run'.rleInProgress
             /\ ~run.rleInProgress => RLECount(PackedWord) = 1
       /\ Len(samples') = Len(samples) + 1]_vars

\* a run was closed at the maximum count and the next repeat of the same
\* value opened a new slot, in a layout whose maximum count is above 1
C15_Witness ==
  /\ run.pc = "loop"
  /\ sampleMask > 1
  /\ run.workingCount = 0
  /\ LET slots == SlotsOf(run.workingValue, samplesPerElement)
     IN /\ slots[samplesPerElement - 1] = rleCountIndicator + sampleMask
        /\ slots[samplesPerElement] = rleCountIndicator + 1
  /\ run.rleInProgress

----------------------------------------------------------------------------
(* C16: no trigger detection while buffering *)

\* words from startOfBuffer to the arm position
ArmOffset ==
  IF sv.delaySizeInElements < BufferCapacity - 1
  THEN sv.delaySizeInElements ELSE BufferCapacity - 1

\* C16: with a trigger configured, while the capture is in Buffering the
\* trigger is where the setup put it: level 0, its delay not counted, no
\* match accepted, not fired, whatever the samples were.  The capture is
\* armed by the iteration that ends with the cursor on the arm position
\* startOfBuffer + min(delaySizeInElements, C - 1), after that many words
\* were committed, and every match and the fire come after that iteration.
C16_NoDetectionWhileBuffering ==
  TriggerConfigured =>
    /\ run.switch_ptr = "Buffering" =>
         /\ armedAt = 0
         /\ firedAt = 0
         /\ \A l \in 0 .. LastLevel : matchAt[l] = 0
         /\ run.currentTriggerLevel = 0
         /\ run.triggerMask = sv.triggerMask[0]
         /\ run.triggerValue = sv.triggerValue[0]
         /\ run.triggerDelay = sv.triggerDelay[0]
    /\ run.switch_ptr # "Buffering" =>
         /\ armedAt # 0
         /\ run.wordsCommitted >= ArmOffset
    /\ (armedAt # 0 /\ armedAt = Len(samples)) =>
         /\ run.switch_ptr = "LookingForTrigger"
         /\ run.inputPtr = startOfBuffer + ArmOffset
         /\ run.wordsCommitted = ArmOffset
    /\ firedAt # 0 => firedAt > armedAt
    /\ \A l \in 0 .. LastLevel : matchAt[l] # 0 => matchAt[l] > armedAt

\* still buffering below the arm position after two samples that satisfy
\* level 0
C16_Witness ==
  /\ TriggerConfigured
  /\ run.pc = "loop"
  /\ run.switch_ptr = "Buffering"
  /\ run.wordsCommitted >= 1
  /\ run.inputPtr < run.startPtr
  /\ \E n \in 1 .. Len(samples) - 1 :
        /\ SampleMatchesLevel(n, 0)
        /\ ~SampleMatchesLevel(n + 1, 0)
        /\ \E k \in n + 2 .. Len(samples) : SampleMatchesLevel(k, 0)

----------------------------------------------------------------------------
(* C17: the words recorded after the trigger *)

\* words committed after the iteration in which the trigger fired
WordsAfterFire == run.wordsCommitted - wordsAtFire

TriggeredCleanly ==
  /\ TriggerConfigured
  /\ firedAt # 0
  /\ CleanCompletion
  /\ sv.delaySizeInElements < BufferCapacity
  /\ elementsToRecord = BufferCapacity

\* C17 as stated: a triggered capture with delaySizeInElements < C that
\* completes cleanly has committed exactly C - delaySizeInElements words
\* from the iteration in which the trigger fired, the word committed by
\* that iteration counted or not.
C17_PostTriggerWords ==
  TriggeredCleanly =>
    \/ WordsAfterFire = BufferCapacity - sv.delaySizeInElements
    \/ WordsAfterFire + 1 = BufferCapacity - sv.delaySizeInElements

----------------------------------------------------------------------------
(* C18: dynamic.triggerSampleIndex *)

\* the index before the ring correction, as an integer
UnreducedTriggerIndex ==
  (run.startPtr + sv.delaySizeInElements - startOfBuffer) * samplesPerElement
    + (samplesPerElement - 1) - run.triggerCount

\* C18 as stated: after every clean completion with delaySizeInElements <= C
\* the unreduced index is not negative and is below twice samplesToRecord,
\* and dynamic.triggerSampleIndex is that value modulo samplesToRecord, in
\* [0, samplesToRecord).
C18_TriggerSampleIndexInRange ==
  (run.pc = "returned" /\ ~run.halted
     /\ sv.delaySizeInElements <= BufferCapacity) =>
    /\ UnreducedTriggerIndex >= 0
    /\ UnreducedTriggerIndex < 2 * sv.samplesToRecord
    /\ run.triggerSampleIndex = ToUint32(UnreducedTriggerIndex % sv.samplesToRecord)
    /\ run.triggerSampleIndex.hi = 0
    /\ run.triggerSampleIndex.lo < sv.samplesToRecord

----------------------------------------------------------------------------
(* C19: the order of the capture states and the status signals *)

\* position of a capture state in the order of the claim
StateRank(label) ==
  CASE label = "Buffering" -> 0
    [] label \in {"LookingForTrigger", "TriggerDelay"} -> 1
    [] label = "Triggered_First_Pass" -> 2
    [] label = "Triggered_Second_Pass" -> 3
    [] label = "Triggered" -> 4

\* C19: an iteration never takes the capture to an earlier state; an
\* iteration that starts in Triggered_First_Pass or Triggered_Second_Pass
\* and is not aborted ends in the next state.  In a capture that was not
\* aborted set_led_on was called at most once and only on leaving
\* Buffering, set_led_off at most once, and once the trigger has fired and
\* its first pass is over exactly once, with set_led_on called before it.
C19_StatesInOrder ==
  [][IterationStep =>
       /\ StateRank(run'.switch_ptr) >= StateRank(run.switch_ptr)
       /\ (run.switch_ptr = "Triggered_First_Pass" /\ ~run'.halted)
            => run'.switch_ptr = "Triggered_Second_Pass"
       /\ (run.switch_ptr = "Triggered_Second_Pass" /\ ~run'.halted)
            => run'.switch_ptr = "Triggered"
       /\ ~run'.halted =>
            /\ run'.ledOnCalls = IF armedAt' # 0 THEN 1 ELSE 0
            /\ run'.ledOnCalls > run.ledOnCalls =>
                 (run.switch_ptr = "Buffering"
                    /\ run'.switch_ptr = "LookingForTrigger")
            /\ run'.ledOffCalls =
                 IF firedAt' # 0 /\ StateRank(run'.switch_ptr) >= 3 THEN 1 ELSE 0
            /\ run'.ledOffCalls > run.ledOffCalls =>
                 (run.switch_ptr = "Triggered_First_Pass" /\ run.ledOnCalls = 1)
            /\ firedAt' # 0 => (armedAt' # 0 /\ armedAt' < firedAt')]_vars

\* a triggered capture completed without abort after it went through
\* TriggerDelay and committed words in the Triggered state
C19_Witness ==
  /\ run.pc = "returned"
  /\ ~run.halted
  /\ firedAt # 0
  /\ sv.triggerDelay[0] > 0
  /\ run.ledOnCalls = 1
  /\ run.ledOffCalls = 1
  /\ run.wordsCommitted > wordsAtFire + 1

----------------------------------------------------------------------------
(* C20: a pending host interrupt ends the loop *)

\* The loop on sample streams of any length.  What the loop tests is finite:
\* the working word and its counts, the cursor, the trigger state, the
\* flags.  This specification leaves out what grows with the stream and is
\* never tested by the loop: the samples read and the counts the model keeps
\* of commits and of first-value saves, the content of the words stored and
\* previousFirstValue (written at lines 117, 221 and 262, read only at lines
\* 259 and 411), and the second run.
ForgetRecorded(s) ==
  [s EXCEPT !.wordsCommitted = 0,
            !.firstValueSaves = 0,
            !.buffer = [a \in DOMAIN s.buffer |-> 0],
            !.previousFirstValue = 0]

\* iterations in which a full working word is committed at the latest: a
\* slot takes at most sampleMask samples (the maximum count)
SamplesPerWordBound == samplesPerElement * sampleMask

\* iterations within which the cursor wraps: the words of one lap and the
\* word being packed
ExitBound == (BufferCapacity + 1) * SamplesPerWordBound

\* one iteration of the loop; pendingFor counts the iterations that ran
\* with the host interrupt pending
LiveIteration ==
  /\ run.pc = "loop"
  /\ pendingFor <= ExitBound
  /\ \E port \in PortValues :
        run' = ForgetRecorded(LoopBody(run, port, usbPending))
  /\ pendingFor' = IF usbPending THEN pendingFor + 1 ELSE pendingFor
  /\ UNCHANGED <<sv, twin, usbPending, samples, armedAt, matchAt, firedAt,
                 wordsAtFire>>

LiveNext ==
  \/ HostSendsData
  \/ LiveIteration
  \/ DoneRecording

\* the processor keeps executing the while (1) loop and the code after it;
\* nothing is assumed about the samples or about the host
LiveSpec ==
  /\ Init
  /\ [][LiveNext]_vars
  /\ WF_vars(LiveIteration)
  /\ WF_vars(DoneRecording)

\* C20: once the host interrupt is pending the loop is left within
\* ExitBound iterations, whatever the samples are and whatever state the
\* capture is in: the loop is never about to start another iteration after
\* that many.
C20_PendingInterruptEndsLoop ==
  /\ pendingFor <= ExitBound
  /\ run.pc = "loop" => pendingFor < ExitBound

\* the capture was aborted on a stream of repeated samples with the trigger
\* armed and not fired, more than one word's worth of iterations after the
\* host interrupt became pending
C20_Witness ==
  /\ run.halted
  /\ run.pc = "returned"
  /\ run.switch_ptr = "LookingForTrigger"
  /\ run.sampleValue = run.previousSampleValue
  /\ pendingFor > SamplesPerWordBound

====
